---- MODULE Spec2Model ----
(***************************************************************************)
(* SMZZL container: pixel packing (src/util.js), header codec              *)
(* (src/header.js) and the encrypt / decrypt pipeline (src/crypto.js).     *)
(*                                                                         *)
(* Typed arrays are sequences of bytes (1-based here, 0-based in the       *)
(* source; every offset below is the source's 0-based offset).  NaN, the   *)
(* value JavaScript arithmetic yields on `undefined`, is the integer -1:   *)
(* every number the program computes otherwise is >= 0 or is compared      *)
(* before it is used.                                                      *)
(***************************************************************************)
EXTENDS Integers, Sequences, FiniteSets, TLC

VARIABLES
    call,       \* last direct call of a pure function: [op, arg, ret]
    encImage,   \* the image given to encrypt
    encPw,      \* the password given to encrypt (a sequence of char codes)
    encEnv,     \* what the environment decided during that call
    encRes,     \* what encrypt(image, pw) ended with
    container,  \* the blob handed to decrypt (encrypt's output, maybe altered)
    tamper,     \* what was done to the container since encrypt returned it
    decPw,      \* the password given to decrypt
    decEnv,     \* what the environment decided during that call
    decRes      \* what decrypt(container, decPw) ended with

vars == <<call, encImage, encPw, encEnv, encRes, container, tamper, decPw, decEnv, decRes>>

(***************************************************************************)
(* src/config.js                                                           *)
(***************************************************************************)
SMZZL_VERSION == <<3>>
SMZZL_IDENTIFIER == <<83, 77, 90, 90, 76>>
HEADERHEIGHT_INDEX == 80
HEADER_MINIMUM_LENGTH == 92
FLAG_LENGTH == 2
NUMBER_LENGTH == 4
IV_LENGTH == 16
TAG_LENGTH == 16
KEY_LENGTH == 32

(***************************************************************************)
(* JavaScript values and typed-array primitives the source relies on.      *)
(***************************************************************************)
NaN == 0 - 1

IsNaN(x) == x = NaN

Min(a, b) == IF a < b THEN a ELSE b

Max(a, b) == IF a > b THEN a ELSE b

\* new Uint8ClampedArray(n): n zero bytes.
Zeros(n) == [i \in 1..n |-> 0]

\* TypedArray.prototype.subarray(begin, end): both ends are clamped to the
\* array, never an exception.
subarray(a, begin, end) ==
    LET b == Min(Max(begin, 0), Len(a))
        e == Min(Max(end, 0), Len(a))
    IN  IF e <= b THEN <<>> ELSE [i \in 1..(e - b) |-> a[b + i]]

\* TypedArray.prototype.set(data, offset) when data fits (the callers below
\* test the RangeError case themselves).
set(target, data, offset) ==
    [i \in 1..Len(target) |->
        IF i > offset /\ i <= offset + Len(data) THEN data[i - offset] ELSE target[i]]

\* array[i] with a 0-based index: `undefined` outside the array, which a
\* Uint8ClampedArray stores as 0.
ReadOr0(a, i) == IF i >= 0 /\ i < Len(a) THEN a[i + 1] ELSE 0

(***************************************************************************)
(* src/util.js: pixel packing.                                             *)
(* `pixels` is array.length / 4, a fraction when the length is no multiple *)
(* of 4; the typed-array constructor truncates pixels * 3, and the loop    *)
(* runs while i < pixels, writing result[3i+k] = array[4i+k]; writes past  *)
(* the result's end are dropped.  Every index below the truncated length   *)
(* is written by that loop, so the result is the function below.           *)
(***************************************************************************)
toRGB(array) ==
    LET n == Len(array)
        length == (n * 3) \div 4
    IN  [j \in 1..length |-> ReadOr0(array, 4 * ((j - 1) \div 3) + ((j - 1) % 3))]

toRGBA(array) ==
    LET n == Len(array)
        length == (n * 4) \div 3
    IN  [j \in 1..length |->
            IF (j - 1) % 4 = 3 THEN 255
            ELSE ReadOr0(array, 3 * ((j - 1) \div 4) + ((j - 1) % 4))]

(***************************************************************************)
(* window.crypto.getRandomValues(new Uint8ClampedArray(n)).  The bytes are *)
(* a nondeterministic choice: every draw takes a seed the environment      *)
(* picks, and the bytes are a fixed function of the seed.  The Web Crypto  *)
(* API throws QuotaExceededError when more than 65536 bytes are asked for. *)
(***************************************************************************)
RandomQuota == 2 ^ 16

RandomByte(seed, i) == (seed * 53 + i * 29 + 17) % 256

getRandomValues(n, seed) ==
    IF n > RandomQuota
    THEN [thrown |-> TRUE, bytes |-> <<>>]
    ELSE [thrown |-> FALSE, bytes |-> [i \in 1..n |-> RandomByte(seed, i)]]

(***************************************************************************)
(* src/header.js                                                           *)
(***************************************************************************)
\* (num >> k) & 255 for the four bytes, most significant first.
encodeUint(num) ==
    << (num \div 16777216) % 256, (num \div 65536) % 256, (num \div 256) % 256, num % 256 >>

\* array[0] * 0x01000000 + ... + array[3]; NaN when one of them is undefined.
decodeUint(array) ==
    IF Len(array) < 4 THEN NaN
    ELSE array[1] * 16777216 + array[2] * 65536 + array[3] * 256 + array[4]

\* Math.ceil(a / b) for a >= 0, b >= 1.
Ceil(a, b) == (a + b - 1) \div b

\* The flag word and its two bytes [flag >> 8, flag & 255].
HeaderFlag(usePassword) == IF usePassword THEN 32768 ELSE 0

\* A header writer that keeps the caller's key in password mode too.
StoredKeyBytesKept(usePassword, keyBytes, decoySeed) == keyBytes

\* The key bytes encodeHeader writes: a fresh random draw in password mode,
\* the caller's keyBytes otherwise (header.js line 29).
StoredKeyBytes(usePassword, keyBytes, decoySeed) ==
    IF usePassword THEN getRandomValues(KEY_LENGTH, decoySeed).bytes ELSE keyBytes

\* The slot encodeHeader patches with encodeUint(headerHeight) (line 41).
HeaderHeightSlot == HEADERHEIGHT_INDEX

\* metaData after the setForward calls of lines 17..38 and the patch of
\* line 41.
MetaData(w, h, iv, tag, usePassword, keyBytes, decoySeed, headerHeight) ==
    LET flag == HeaderFlag(usePassword)
        flagArray == << flag \div 256, flag % 256 >>
        areaDataLength == 0
        forward == SMZZL_IDENTIFIER \o SMZZL_VERSION \o flagArray
                    \o encodeUint(w) \o encodeUint(h) \o iv \o tag
                    \o StoredKeyBytes(usePassword, keyBytes, decoySeed)
                    \o Zeros(NUMBER_LENGTH) \o Zeros(NUMBER_LENGTH)
                    \o encodeUint(areaDataLength)
        metaData == set(Zeros(HEADER_MINIMUM_LENGTH), forward, 0)
    IN  set(metaData, encodeUint(headerHeight), HeaderHeightSlot)

\* encodeHeader({ w, h, iv, tag, usePassword, keyBytes }): the camouflage
\* draw of line 45 throws when the block is larger than the random quota.
encodeHeader(w, h, iv, tag, usePassword, keyBytes, decoySeed, fillSeed) ==
    LET metaDataLength == HEADER_MINIMUM_LENGTH
        areaDataLength == 0
        rowDataLength == 3 * w
        headerHeight == Ceil(metaDataLength + areaDataLength, rowDataLength)
        headerDataLength == headerHeight * rowDataLength
        fill == getRandomValues(headerDataLength, fillSeed)
    IN  IF fill.thrown
        THEN [thrown |-> TRUE, headerData |-> <<>>, headerHeight |-> 0]
        ELSE [thrown |-> FALSE,
              headerData |-> set(fill.bytes,
                                 MetaData(w, h, iv, tag, usePassword, keyBytes,
                                          decoySeed, headerHeight), 0),
              headerHeight |-> headerHeight]

NullHeader == [isNull |-> TRUE]

\* A version test that only looks whether a version byte is there.
VersionPresent(version) == Len(version) >= 1

\* The version test of line 69, on the one-byte subarray read at offset 5
\* (empty when the buffer ends before it: version[0] is then undefined).
VersionMatches(version) == Len(version) >= 1 /\ version[1] = SMZZL_VERSION[1]

\* decodeHeader(imageData): readForward never throws (subarray clamps), so
\* the catch of line 83 is never entered; only the version test returns null.
decodeHeader(imageData) ==
    LET signiture == subarray(imageData, 0, 5)
        version == subarray(imageData, 5, 6)
        flagArray == subarray(imageData, 6, 6 + FLAG_LENGTH)
    IN  IF ~VersionMatches(version)
        THEN NullHeader
        ELSE [isNull |-> FALSE,
              signiture |-> signiture,
              version |-> version[1],
              usePassword |-> Len(flagArray) >= 1 /\ flagArray[1] >= 128,
              w |-> decodeUint(subarray(imageData, 8, 12)),
              h |-> decodeUint(subarray(imageData, 12, 16)),
              iv |-> subarray(imageData, 16, 32),
              tag |-> subarray(imageData, 32, 48),
              keyBytes |-> subarray(imageData, 48, 80),
              headerHeight |-> decodeUint(subarray(imageData, 80, 84)),
              footerHeight |-> decodeUint(subarray(imageData, 84, 88)),
              areaDataLength |-> decodeUint(subarray(imageData, 88, 92))]

verifyIdentifier(data) ==
    \A i \in 0..(Len(SMZZL_IDENTIFIER) - 1) :
        i < Len(data) /\ data[i + 1] = SMZZL_IDENTIFIER[i + 1]

(***************************************************************************)
(* The collaborators of src/crypto.js.                                     *)
(*                                                                         *)
(* SHA-256 and AES-GCM are the browser's; what the pipeline relies on is   *)
(* their contract: the digest is a fixed function of the password that    *)
(* separates different passwords, AES-GCM's ciphertext has the length of   *)
(* the plaintext and is followed by a 16-byte tag, and decryption fails    *)
(* unless key, iv, ciphertext and tag are the ones of one encryption.      *)
(* The functions below are small ciphers with that contract.               *)
(***************************************************************************)
RECURSIVE WeightedSum(_, _)
WeightedSum(bytes, i) ==
    IF i > Len(bytes) THEN 0 ELSE bytes[i] * (i + 1) + WeightedSum(bytes, i + 1)

\* window.crypto.subtle.digest(HASH_ALGORITHM, utf8): 32 bytes.
digest(utf8) ==
    [i \in 1..32 |-> (WeightedSum(utf8, 1) * 31 + Len(utf8) * 7 + i * 97 + 5) % 256]

\* getHash(input, length): the digest's first `length` bytes.  A password is
\* its sequence of char codes, which TextEncoder leaves as they are (ASCII).
getHash(input, length) == subarray(digest(input), 0, length)

\* importKey('raw', keyBytes, 'AES-GCM', ...) accepts 128, 192 and 256 bit keys.
ImportableKey(keyBytes) == Len(keyBytes) \in {16, 24, 32}

Keystream(key, iv, i) ==
    (key[1 + (i % Len(key))] + 3 * iv[1 + (i % Len(iv))] + 7 * i + 1) % 256

RECURSIVE SumEvery16(_, _)
SumEvery16(ct, i) ==
    IF i >= Len(ct) THEN 0 ELSE ct[i + 1] + SumEvery16(ct, i + 16)

AeadTag(key, iv, ct) ==
    [j \in 1..TAG_LENGTH |->
        (5 * key[1 + ((j - 1) % Len(key))] + 3 * key[1 + ((j + 15) % Len(key))]
           + iv[1 + ((j - 1) % Len(iv))] + 11 * Len(ct) + SumEvery16(ct, j - 1)) % 256]

\* subtle.encrypt({name, iv, tagLength}, key, plaintext): ciphertext || tag.
AeadEncrypt(key, iv, plaintext) ==
    LET ct == [i \in 1..Len(plaintext) |->
                  (plaintext[i] + Keystream(key, iv, i - 1)) % 256]
    IN  ct \o AeadTag(key, iv, ct)

\* subtle.decrypt({name, iv, tagLength}, key, data): the plaintext, or an
\* OperationError (ok = FALSE) when data is shorter than a tag or the tag
\* is not the one of (key, iv, ciphertext).
AeadDecrypt(key, iv, data) ==
    LET n == Len(data) - TAG_LENGTH
        ct == subarray(data, 0, n)
        tag == subarray(data, n, Len(data))
    IN  IF n < 0 \/ Len(iv) = 0 \/ tag # AeadTag(key, iv, ct)
        THEN [ok |-> FALSE, plaintext |-> <<>>]
        ELSE [ok |-> TRUE,
              plaintext |-> [i \in 1..n |->
                                (ct[i] + 256 - Keystream(key, iv, i - 1)) % 256]]

(***************************************************************************)
(* Results, errors (src/error.js) and blobs.  A blob is what the PNG codec *)
(* makes of the arguments of encode(): width, height, colour type, pixels. *)
(***************************************************************************)
Null == [kind |-> "null"]

ImageTypeError == [kind |-> "ImageTypeError", reason |-> "type"]

CryptoError(message) == [kind |-> "CryptoError", reason |-> message]

DecodingError(message) == [kind |-> "DecodingError", reason |-> message]

EncodingError(message) == [kind |-> "EncodingError", reason |-> message]

PngBlob(width, height, colorType, data) ==
    [kind |-> "blob", width |-> width, height |-> height,
     colorType |-> colorType, data |-> data]

\* What a call ended with: it returned { output, error }, or the promise was
\* rejected with an exception nothing caught.  `encoded` is the argument of
\* the PNG encoder when the call reached it, `keyBytes` the key the call
\* imported.
Returned(output, error, encoded, keyBytes) ==
    [status |-> "returned", output |-> output, error |-> error,
     encoded |-> encoded, keyBytes |-> keyBytes]

Thrown(exception) ==
    [status |-> "thrown", output |-> Null, error |-> Null,
     encoded |-> Null, keyBytes |-> <<>>, exception |-> exception]

NotCalled == [status |-> "none"]

(***************************************************************************)
(* src/util.js: the two image loaders.  `env` holds what the environment   *)
(* decides during one call: whether each fallible collaborator succeeds,   *)
(* and the seeds of the random draws.                                      *)
(***************************************************************************)
\* getImageDataCanvas(image): { w, h, imageData }, or, when the image does
\* not load or is no image, an object { output: null, error } that has
\* none of the three (lines 82 and 85).
getImageDataCanvas(image, env) ==
    IF image.kind = "File" /\ ~env.loadOk
    THEN [loaded |-> FALSE, error |-> DecodingError("load")]
    ELSE IF image.kind \notin {"File", "HTMLImageElement"}
    THEN [loaded |-> FALSE, error |-> ImageTypeError]
    ELSE [loaded |-> TRUE, w |-> image.w, h |-> image.h, imageData |-> image.imageData]

\* getImageDataPNG(image): null when the PNG decoder throws or the colour
\* type is neither RGB nor RGBA.
getImageDataPNG(image, env) ==
    IF ~env.decodeOk THEN [isNull |-> TRUE]
    ELSE IF image.colorType = "RGBA"
    THEN [isNull |-> FALSE, w |-> image.width, h |-> image.height,
          data |-> toRGB(image.data)]
    ELSE IF image.colorType # "RGB" THEN [isNull |-> TRUE]
    ELSE [isNull |-> FALSE, w |-> image.width, h |-> image.height, data |-> image.data]

(***************************************************************************)
(* src/crypto.js                                                           *)
(***************************************************************************)
splitCiphertext(ciphertext, tagLength) ==
    LET index == Len(ciphertext) - tagLength
    IN  [encrypted |-> subarray(ciphertext, 0, index),
         tag |-> subarray(ciphertext, index, Len(ciphertext))]

encrypt(image, pw, env) ==
    LET loaded == getImageDataCanvas(image, env)
    IN  IF ~loaded.loaded
        THEN \* w, h, imageData are undefined; toRGB(undefined) throws (line 22)
             Thrown("TypeError")
        ELSE
        LET w == loaded.w
            h == loaded.h
            imageDataRGB == toRGB(loaded.imageData)
            usePassword == pw # <<>>
            keyBytes == IF usePassword THEN getHash(pw, KEY_LENGTH)
                        ELSE getRandomValues(KEY_LENGTH, env.keySeed).bytes
            iv == getRandomValues(IV_LENGTH, env.ivSeed).bytes
            ciphertext == AeadEncrypt(keyBytes, iv, imageDataRGB)
            split == splitCiphertext(ciphertext, TAG_LENGTH)
            header == encodeHeader(w, h, iv, split.tag, usePassword, keyBytes,
                                   env.decoySeed, env.fillSeed)
            outputDataRGB == header.headerData \o split.encrypted
            outputDataRGBA == toRGBA(outputDataRGB)
            outputHeight == h + header.headerHeight
            encoded == PngBlob(w, outputHeight, "RGBA", outputDataRGBA)
        IN  IF usePassword /\ ~env.hashOk
            THEN Returned(Null, CryptoError("hash"), Null, <<>>)
            ELSE IF ~ImportableKey(keyBytes) \/ ~env.importOk \/ ~env.aeadOk
            THEN Returned(Null, CryptoError("encrypt"), Null, keyBytes)
            ELSE IF header.thrown
            THEN \* encodeHeader is called outside every try (line 64)
                 Thrown("QuotaExceededError")
            ELSE IF ~env.encodeOk
            THEN Returned(Null, EncodingError("png"), encoded, keyBytes)
            ELSE Returned(encoded, Null, encoded, keyBytes)

\* A catch that builds the error without its sub-reason.
DecryptFailureUnnamed == CryptoError("unknown")

\* The error of the catch around the AEAD decryption (line 199).
DecryptFailure == CryptoError("decrypt")

\* Lines 182..187: the AEAD input, ciphertext || stored tag.  The typed-array
\* constructor throws RangeError on a negative length and takes NaN as 0;
\* subarray takes NaN as 0; set throws RangeError when the source does not
\* fit.
AssembleData(imageDataRGB, header) ==
    LET nan == IsNaN(header.headerHeight) \/ IsNaN(header.w)
        headerLength == IF nan THEN NaN ELSE header.headerHeight * 3 * header.w
        dataLength == IF nan THEN NaN
                      ELSE Len(imageDataRGB) - headerLength + TAG_LENGTH
        allocated == IF nan THEN 0 ELSE dataLength
        encrypted == subarray(imageDataRGB, IF nan THEN 0 ELSE headerLength,
                              Len(imageDataRGB))
    IN  IF \/ (~nan /\ dataLength < 0)
           \/ Len(encrypted) > allocated
           \/ Len(encrypted) + Len(header.tag) > allocated
        THEN [thrown |-> TRUE, data |-> <<>>]
        ELSE [thrown |-> FALSE,
              data |-> set(set(Zeros(allocated), encrypted, 0),
                           header.tag, Len(encrypted))]

\* The AEAD input assembled before the try block, as encrypt does with
\* encodeHeader: the RangeError leaves decrypt.
AssembleFailedUncaught(keyBytes) == Thrown("RangeError")

\* A RangeError of lines 182..187 is thrown inside the try of line 181 and
\* ends in its catch.
AssembleFailed(keyBytes) == Returned(Null, DecryptFailure, Null, keyBytes)

decrypt(image, pw, env) ==
    IF image.kind = "null"
    THEN \* new ImageTypeError(null, ...) reads image.type (error.js line 3)
         Thrown("TypeError")
    ELSE IF image.kind # "blob"
    THEN Returned(Null, ImageTypeError, Null, <<>>)
    ELSE
    LET pngData == getImageDataPNG(image, env)
    IN  IF pngData.isNull
        THEN Returned(Null, DecodingError("PNG decoding failed"), Null, <<>>)
        ELSE
        LET imageDataRGB == pngData.data
            header == decodeHeader(imageDataRGB)
        IN  IF ~verifyIdentifier(imageDataRGB)
            THEN Returned(Null, DecodingError("signiture not found"), Null, <<>>)
            ELSE IF header.isNull
            THEN Returned(Null, DecodingError("invalid header"), Null, <<>>)
            ELSE
            LET keyBytes == IF header.usePassword THEN getHash(pw, KEY_LENGTH)
                            ELSE header.keyBytes
                assembled == AssembleData(imageDataRGB, header)
                opened == AeadDecrypt(keyBytes, header.iv, assembled.data)
                outputDataRGB == opened.plaintext
                outputDataRGBA == toRGBA(outputDataRGB)
                encoded == PngBlob(header.w, header.h, "RGBA", outputDataRGBA)
            IN  IF header.usePassword /\ pw = <<>>
                THEN Returned(Null, CryptoError("no password"), Null, <<>>)
                ELSE IF header.usePassword /\ ~env.hashOk
                THEN Returned(Null, CryptoError("hash"), Null, <<>>)
                ELSE IF ~ImportableKey(keyBytes) \/ ~env.importOk
                THEN Returned(Null, CryptoError("import key"), Null, keyBytes)
                ELSE IF assembled.thrown
                THEN AssembleFailed(keyBytes)
                ELSE IF ~env.aeadOk \/ ~opened.ok
                THEN Returned(Null, DecryptFailure, Null, keyBytes)
                ELSE IF ~env.encodeOk
                THEN Returned(Null, EncodingError("png"), encoded, keyBytes)
                ELSE Returned(encoded, Null, encoded, keyBytes)

(***************************************************************************)
(* Bounds and the inputs drawn within them.                                *)
(***************************************************************************)
MaxLen == 7        \* longest array handed to toRGB / toRGBA directly
MaxW == 2          \* widest image encrypted and decrypted byte by byte
MaxH == 2          \* tallest such image
MaxSeed == 2       \* number of different outcomes of the random draws
MaxField == 3      \* largest value written into a header field by tampering
MaxWidth == 4      \* encodeHeader is called with every width up to this one

PackBytes == {9, 200}

Arrays == UNION {[1..n -> PackBytes] : n \in 0..MaxLen}

Seeds == 1..MaxSeed

\* One call's environment: at most one collaborator fails, and every draw
\* of the call has its own seed.
Env(fail, seed) ==
    [loadOk |-> fail # "load", hashOk |-> fail # "hash", importOk |-> fail # "import",
     aeadOk |-> fail # "aead", encodeOk |-> fail # "encode", decodeOk |-> fail # "decode",
     keySeed |-> 4 * seed, ivSeed |-> 4 * seed + 1,
     decoySeed |-> 4 * seed + 2, fillSeed |-> 4 * seed + 3]

AllOk(env) ==
    /\ env.loadOk /\ env.hashOk /\ env.importOk
    /\ env.aeadOk /\ env.encodeOk /\ env.decodeOk

EncEnvs == {Env(f, s) : f \in {"none", "load", "hash", "import", "aead", "encode"},
                        s \in Seeds}

DecEnvs == {Env(f, 1) : f \in {"none", "decode", "hash", "import", "aead", "encode"}}

\* A w x h image file whose pixels are all different and translucent.
ImageFile(w, h) ==
    [kind |-> "File", w |-> w, h |-> h,
     imageData |-> [i \in 1..(4 * w * h) |->
                       IF (i - 1) % 4 = 3 THEN 128 ELSE (i * 37 + 11) % 256]]

\* The narrowest image whose header row is larger than the random quota.
WideWidth == RandomQuota \div 3 + 1

Images == {ImageFile(w, h) : w \in 1..MaxW, h \in 1..MaxH}
            \cup {ImageFile(WideWidth, 1), [kind |-> "other"]}

Passwords == {<<>>, <<97>>, <<98>>}

(***************************************************************************)
(* State machine.  Init is the state before any call.                      *)
(***************************************************************************)
Init ==
    /\ call = [op |-> "none"]
    /\ encImage = Null
    /\ encPw = <<>>
    /\ encEnv = Env("none", 1)
    /\ encRes = NotCalled
    /\ container = Null
    /\ tamper = [kind |-> "none"]
    /\ decPw = <<>>
    /\ decEnv = Env("none", 1)
    /\ decRes = NotCalled

pipeline == <<encImage, encPw, encEnv, encRes, container, tamper, decPw, decEnv, decRes>>

(***************************************************************************)
(* Direct calls of the pixel packing functions.                            *)
(***************************************************************************)
CallToRGB ==
    /\ call.op = "none"
    /\ \E a \in Arrays : call' = [op |-> "toRGB", arg |-> a, ret |-> toRGB(a)]
    /\ UNCHANGED pipeline

CallToRGBA ==
    /\ call.op = "none"
    /\ \E a \in Arrays : call' = [op |-> "toRGBA", arg |-> a, ret |-> toRGBA(a)]
    /\ UNCHANGED pipeline

NextPack == CallToRGB \/ CallToRGBA

SpecPack == Init /\ [][NextPack]_vars

(***************************************************************************)
(* Direct calls of the header codec: encodeHeader on widths up to          *)
(* MaxWidth, the widths of the header-height test and the first width past *)
(* the random quota; decodeHeader and verifyIdentifier on the              *)
(* block encodeHeader returned, intact, with one byte of the identifier or *)
(* the version changed, or cut short.                                      *)
(***************************************************************************)
HeaderWidths == (1..MaxWidth) \cup {10, 100, 4096, WideWidth}

HeaderArgs ==
    {[w |-> w, h |-> h,
      iv |-> getRandomValues(IV_LENGTH, 4 * s + 1).bytes,
      tag |-> getRandomValues(TAG_LENGTH, 4 * s + 5).bytes,
      usePassword |-> u,
      keyBytes |-> IF u THEN getHash(<<97>>, KEY_LENGTH)
                   ELSE getRandomValues(KEY_LENGTH, 4 * s).bytes,
      decoySeed |-> 4 * s + 2, fillSeed |-> 4 * s + 3] :
        w \in HeaderWidths, h \in {1, 300}, u \in BOOLEAN, s \in Seeds}

CallEncodeHeader ==
    /\ call.op = "none"
    /\ \E a \in HeaderArgs :
         call' = [op |-> "encodeHeader", arg |-> a,
                  ret |-> encodeHeader(a.w, a.h, a.iv, a.tag, a.usePassword,
                                       a.keyBytes, a.decoySeed, a.fillSeed)]
    /\ UNCHANGED pipeline

\* The byte at 0-based offset p replaced by v.
SetByte(a, p, v) == [a EXCEPT ![p + 1] = v]

TruncLengths == {0, 3, 5, 6, 7, 15, 47, 50, 80, 83, 91}

Buffers(block) ==
    {block}
      \cup {SetByte(block, p, 0) : p \in 0..4}
      \cup {SetByte(block, 5, v) : v \in {2, 4}}
      \cup {SetByte(SetByte(block, 0, 0), 5, 4)}
      \cup {subarray(block, 0, n) : n \in TruncLengths}
      \cup {SetByte(subarray(block, 0, n), 0, 115) : n \in {3, 80}}

CallDecodeHeader ==
    /\ call.op = "encodeHeader"
    /\ ~call.ret.thrown
    /\ \E b \in Buffers(call.ret.headerData) :
         call' = [op |-> "decodeHeader", arg |-> b, ret |-> decodeHeader(b)]
    /\ UNCHANGED pipeline

CallVerifyIdentifier ==
    /\ call.op = "encodeHeader"
    /\ ~call.ret.thrown
    /\ \E b \in Buffers(call.ret.headerData) :
         call' = [op |-> "verifyIdentifier", arg |-> b, ret |-> verifyIdentifier(b)]
    /\ UNCHANGED pipeline

NextHeader == CallEncodeHeader \/ CallDecodeHeader \/ CallVerifyIdentifier

SpecHeader == Init /\ [][NextHeader]_vars

(***************************************************************************)
(* The pipeline: one encrypt call, then possibly one alteration of the     *)
(* container it returned (the container is a file anyone can rewrite),     *)
(* then one decrypt call.                                                  *)
(***************************************************************************)
Encrypt ==
    /\ call.op = "none"
    /\ encRes.status = "none"
    /\ decRes.status = "none"
    /\ \E img \in Images, p \in Passwords, env \in EncEnvs :
         LET res == encrypt(img, p, env)
         IN  /\ encImage' = img
             /\ encPw' = p
             /\ encEnv' = env
             /\ encRes' = res
             /\ container' = res.output
    /\ UNCHANGED <<call, tamper, decPw, decEnv, decRes>>

Alterable ==
    /\ container.kind = "blob"
    /\ tamper.kind = "none"
    /\ decRes.status = "none"

\* 0-based index in the RGBA pixel data of the RGB byte at 0-based index r.
RGBAIndex(r) == 4 * (r \div 3) + (r % 3)

\* Byte b with bit k inverted.
FlipBit(b, k) == IF (b \div (2 ^ k)) % 2 = 1 THEN b - 2 ^ k ELSE b + 2 ^ k

\* The container with the RGB byte at index r replaced by v.
WithByte(blob, r, v) == [blob EXCEPT !.data[RGBAIndex(r) + 1] = v]

RGBByte(blob, r) == blob.data[RGBAIndex(r) + 1]

RECURSIVE WithBytes(_, _, _)
WithBytes(blob, r, bytes) ==
    IF bytes = <<>> THEN blob
    ELSE WithBytes(WithByte(blob, r, Head(bytes)), r + 1, Tail(bytes))

\* Offset of the stored tag in the header, and of the ciphertext in the
\* container encrypt returned.
TagOffset == 32

CipherOffset == (container.height - encImage.h) * 3 * encImage.w

CipherLength == 3 * encImage.w * encImage.h

FlipTagBit ==
    /\ Alterable
    /\ \E j \in 0..(TAG_LENGTH - 1), k \in 0..7 :
         /\ container' = WithByte(container, TagOffset + j,
                                  FlipBit(RGBByte(container, TagOffset + j), k))
         /\ tamper' = [kind |-> "tag", at |-> j, bit |-> k]
    /\ UNCHANGED <<call, encImage, encPw, encEnv, encRes, decPw, decEnv, decRes>>

FlipCipherBit ==
    /\ Alterable
    /\ \E i \in 0..(CipherLength - 1), k \in 0..7 :
         /\ container' = WithByte(container, CipherOffset + i,
                                  FlipBit(RGBByte(container, CipherOffset + i), k))
         /\ tamper' = [kind |-> "cipher", at |-> i, bit |-> k]
    /\ UNCHANGED <<call, encImage, encPw, encEnv, encRes, decPw, decEnv, decRes>>

FieldValues == (0..MaxField) \cup {40}

\* One of the header's numbers rewritten: width (offset 8), height (12) or
\* headerHeight (80).
SetHeaderField ==
    /\ Alterable
    /\ \E at \in {8, 12, HEADERHEIGHT_INDEX}, v \in FieldValues :
         /\ container' = WithBytes(container, at, encodeUint(v))
         /\ container' # container
         /\ tamper' = [kind |-> "field", at |-> at, value |-> v]
    /\ UNCHANGED <<call, encImage, encPw, encEnv, encRes, decPw, decEnv, decRes>>

\* The top bit of the identifier's first byte, of the version or of the
\* flag word inverted.
FlipHeaderBit ==
    /\ Alterable
    /\ \E at \in {0, 5, 6} :
         /\ container' = WithByte(container, at, FlipBit(RGBByte(container, at), 7))
         /\ tamper' = [kind |-> "byte", at |-> at]
    /\ UNCHANGED <<call, encImage, encPw, encEnv, encRes, decPw, decEnv, decRes>>

\* The container cut down to its first n pixels, as one row.
Truncate ==
    /\ Alterable
    /\ \E n \in {1, 2, 16, 27, 30} :
         /\ container' = PngBlob(n, 1, "RGBA", subarray(container.data, 0, 4 * n))
         /\ tamper' = [kind |-> "truncate", pixels |-> n]
    /\ UNCHANGED <<call, encImage, encPw, encEnv, encRes, decPw, decEnv, decRes>>

\* The same pixels stored as an RGB PNG, or as a greyscale one.
Reencode ==
    /\ Alterable
    /\ \/ container' = [container EXCEPT !.colorType = "RGB",
                                         !.data = toRGB(container.data)]
       \/ container' = [container EXCEPT !.colorType = "GREYSCALE"]
    /\ tamper' = [kind |-> "reencode"]
    /\ UNCHANGED <<call, encImage, encPw, encEnv, encRes, decPw, decEnv, decRes>>

Decrypt ==
    /\ container.kind = "blob"
    /\ decRes.status = "none"
    /\ \E p \in Passwords, env \in DecEnvs :
         /\ decPw' = p
         /\ decEnv' = env
         /\ decRes' = decrypt(container, p, env)
    /\ UNCHANGED <<call, encImage, encPw, encEnv, encRes, container, tamper>>

\* decrypt called with something that is no File or Blob: null, or a string.
DecryptNonBlob ==
    /\ call.op = "none"
    /\ encRes.status = "none"
    /\ decRes.status = "none"
    /\ \E kind \in {"null", "string"}, p \in Passwords :
         /\ container' = [kind |-> kind]
         /\ decPw' = p
         /\ decRes' = decrypt([kind |-> kind], p, Env("none", 1))
    /\ UNCHANGED <<call, encImage, encPw, encEnv, encRes, tamper, decEnv>>

Next ==
    \/ Encrypt
    \/ FlipTagBit
    \/ FlipCipherBit
    \/ SetHeaderField
    \/ FlipHeaderBit
    \/ Truncate
    \/ Reencode
    \/ Decrypt
    \/ DecryptNonBlob

Spec == Init /\ [][Next]_vars

(***************************************************************************)
(* Properties.                                                             *)
(***************************************************************************)

\* C9: toRGB returns floor(n / 4) * 3 bytes for every input of n bytes, and
\* toRGBA returns floor(n / 3) * 4 bytes of which every 4th is 255, whether
\* or not n is a multiple of the pixel size.
C9_PackingLengths ==
    /\ call.op = "toRGB" => Len(call.ret) = (Len(call.arg) \div 4) * 3
    /\ call.op = "toRGBA" =>
         /\ Len(call.ret) = (Len(call.arg) \div 3) * 4
         /\ \A j \in 1..Len(call.ret) : j % 4 = 0 => call.ret[j] = 255

\* The part of C9 the code keeps: on whole pixels the lengths are the
\* stated ones, the colour bytes are copied and every alpha byte is 255.
PackingOnWholePixels ==
    /\ (call.op = "toRGB" /\ Len(call.arg) % 4 = 0) =>
         /\ Len(call.ret) = (Len(call.arg) \div 4) * 3
         /\ \A j \in 0..(Len(call.ret) - 1) :
              call.ret[j + 1] = call.arg[4 * (j \div 3) + (j % 3) + 1]
    /\ (call.op = "toRGBA" /\ Len(call.arg) % 3 = 0) =>
         /\ Len(call.ret) = (Len(call.arg) \div 3) * 4
         /\ \A j \in 0..(Len(call.ret) - 1) :
              call.ret[j + 1] = IF j % 4 = 3 THEN 255
                                ELSE call.arg[3 * (j \div 4) + (j % 4) + 1]

\* C7: decodeHeader returns null for every buffer shorter than the 92-byte
\* header.
C7_ShortBufferRejected ==
    (call.op = "decodeHeader" /\ Len(call.arg) < HEADER_MINIMUM_LENGTH)
        => call.ret.isNull

\* The first five bytes of a buffer are the identifier.
HasMagic(buffer) ==
    /\ Len(buffer) >= 5
    /\ \A i \in 1..5 : buffer[i] = SMZZL_IDENTIFIER[i]

\* The byte at offset 5 is the supported version.
HasVersion(buffer) == Len(buffer) >= 6 /\ buffer[6] = 3

HeaderBlockAsSpecified(a, r) ==
    LET block == r.headerData
        hh == r.headerHeight
    IN  /\ hh * 3 * a.w >= 92
        /\ (hh - 1) * 3 * a.w < 92
        /\ Len(block) = hh * 3 * a.w
        /\ subarray(block, 0, 5) = <<83, 77, 90, 90, 76>>
        /\ block[6] = 3
        /\ block[7] = (IF a.usePassword THEN 128 ELSE 0)
        /\ block[8] = 0
        /\ block[9] * 16777216 + block[10] * 65536 + block[11] * 256 + block[12] = a.w
        /\ block[13] * 16777216 + block[14] * 65536 + block[15] * 256 + block[16] = a.h
        /\ subarray(block, 16, 32) = a.iv
        /\ subarray(block, 32, 48) = a.tag
        /\ block[81] * 16777216 + block[82] * 65536 + block[83] * 256 + block[84] = hh
        /\ subarray(block, 84, 92) = <<0, 0, 0, 0, 0, 0, 0, 0>>

\* C5: for every width w >= 1 encodeHeader returns headerHeight =
\* ceil(92 / (3 w)) and a block of headerHeight * 3 * w bytes that starts
\* with the 92 serialized header bytes, with headerHeight stored big-endian
\* at bytes 80..83 and footerHeight and areaDataLength stored as 0.
C5_HeaderHeight ==
    call.op = "encodeHeader" =>
        /\ ~call.ret.thrown
        /\ HeaderBlockAsSpecified(call.arg, call.ret)

\* The part of C5 the code keeps: whenever encodeHeader returns, what it
\* returns is as specified.
HeaderHeightWhenReturned ==
    (call.op = "encodeHeader" /\ ~call.ret.thrown)
        => HeaderBlockAsSpecified(call.arg, call.ret)

(***************************************************************************)
(* Properties of the pipeline.                                             *)
(***************************************************************************)
\* encrypt was called on an image file of width and height >= 1 and no
\* collaborator failed.
EncryptedCleanly ==
    /\ encRes.status # "none"
    /\ encImage.kind = "File"
    /\ AllOk(encEnv)

\* decrypt was called on what encrypt returned, unaltered, with encrypt's
\* password, and no collaborator failed.
DecryptedSame ==
    /\ decRes.status # "none"
    /\ tamper.kind = "none"
    /\ container.kind = "blob"
    /\ decPw = encPw
    /\ AllOk(decEnv)

\* decrypt succeeded and handed the PNG encoder the original image: its
\* width and height, its colour bytes, and 255 for every alpha byte.
RecoversOriginal ==
    /\ decRes.status = "returned"
    /\ decRes.error = Null
    /\ decRes.output # Null
    /\ decRes.encoded.width = encImage.w
    /\ decRes.encoded.height = encImage.h
    /\ Len(decRes.encoded.data) = Len(encImage.imageData)
    /\ \A i \in 1..Len(encImage.imageData) :
         decRes.encoded.data[i] = IF i % 4 = 0 THEN 255 ELSE encImage.imageData[i]

\* C1: for every image of width and height >= 1 and every password, empty
\* or not, decrypt(encrypt(image, pw), pw) succeeds and hands the PNG
\* encoder the original RGB bytes, alpha 255, width and height.
C1_RoundTrip ==
    EncryptedCleanly =>
        /\ encRes.status = "returned"
        /\ encRes.error = Null
        /\ DecryptedSame => RecoversOriginal

\* The part of C1 the code keeps: whenever encrypt returned a container,
\* decrypting it recovers the original.
RoundTripWhenEncrypted == (EncryptedCleanly /\ DecryptedSame) => RecoversOriginal

\* A call ended as the public contract says: it returned, and exactly one
\* of output and error is null.
ResultOrError(res) ==
    /\ res.status = "returned"
    /\ (res.output = Null) # (res.error = Null)

\* C3: every call of encrypt or decrypt, whatever fails, returns a result
\* with exactly one of output and error; a failed image load makes encrypt
\* return a DecodingError.
C3_NoExceptionEscapes ==
    /\ encRes.status # "none" =>
         /\ ResultOrError(encRes)
         /\ (encImage.kind = "File" /\ ~encEnv.loadOk) => encRes.error.kind = "DecodingError"
    /\ decRes.status # "none" => ResultOrError(decRes)

\* The part of C3 the code keeps: a call that returns, returns exactly one
\* of output and error.
ReturnedResultOrError ==
    /\ encRes.status = "returned" => ResultOrError(encRes)
    /\ decRes.status = "returned" => ResultOrError(decRes)

\* The RGB bytes the decoder reads from a container.
ContainerRGB(blob) == toRGB(blob.data)

\* The 32-byte key field of a container's header.
KeyField(rgb) == subarray(rgb, 48, 48 + KEY_LENGTH)

\* Bit 15 of the flag word: the top bit of the byte at offset 6.
FlagBit15(rgb) == rgb[7] >= 128

\* No 32 consecutive bytes of rgb are the given key.
NowhereIn(rgb, key) ==
    \A o \in 0..(Len(rgb) - Len(key)) : subarray(rgb, o, o + Len(key)) # key

\* encrypt has just returned a container.
JustEncrypted ==
    /\ encRes.status = "returned"
    /\ encRes.output # Null
    /\ tamper.kind = "none"
    /\ decRes.status = "none"

\* C6: in a container encrypt made with a password, flag bit 15 is set and
\* the key field is the random draw made in encodeHeader, the key derived
\* from the password being nowhere in the output; in a container made
\* without a password, bit 15 is clear and the key field is the random key
\* the pixels were encrypted with.
C6_KeyPersistence ==
    JustEncrypted =>
        LET rgb == ContainerRGB(encRes.output)
            stored == decodeHeader(rgb)
        IN  IF encPw # <<>>
            THEN /\ FlagBit15(rgb)
                 /\ encRes.keyBytes = getHash(encPw, KEY_LENGTH)
                 /\ KeyField(rgb) = getRandomValues(KEY_LENGTH, encEnv.decoySeed).bytes
                 /\ NowhereIn(rgb, encRes.keyBytes)
            ELSE /\ ~FlagBit15(rgb)
                 /\ KeyField(rgb) = encRes.keyBytes
                 /\ KeyField(rgb) = getRandomValues(KEY_LENGTH, encEnv.keySeed).bytes
                 /\ AeadDecrypt(KeyField(rgb), stored.iv,
                                subarray(rgb, Len(rgb) - 3 * encImage.w * encImage.h,
                                         Len(rgb)) \o stored.tag).ok

\* encrypt returned a container made with a password.
C6_Witness ==
    /\ JustEncrypted
    /\ encPw = <<97>>
    /\ FlagBit15(ContainerRGB(encRes.output))
    /\ KeyField(ContainerRGB(encRes.output)) # encRes.keyBytes

\* decrypt was called, with every collaborator working, on a container of
\* encrypt of which one bit of the stored tag or of the ciphertext was
\* inverted, or with a wrong non-empty password on an unaltered container
\* made with a password.
AuthenticationCase ==
    /\ decRes.status # "none"
    /\ container.kind = "blob"
    /\ AllOk(decEnv)
    /\ encPw # <<>> => decPw # <<>>
    /\ \/ tamper.kind \in {"tag", "cipher"}
       \/ tamper.kind = "none" /\ encPw # <<>> /\ decPw # encPw

\* C2: each of these cases ends the same way: output null, the error a
\* CryptoError with the one sub-reason of the AEAD failure, and the PNG
\* encoder never called.
C2_SingleAuthFailure ==
    AuthenticationCase =>
        /\ decRes.status = "returned"
        /\ decRes.output = Null
        /\ decRes.error = CryptoError("decrypt")
        /\ decRes.encoded = Null

\* A wrong password, an inverted tag bit and an inverted ciphertext bit:
\* one witness each would do; this is the wrong password.
C2_Witness ==
    /\ AuthenticationCase
    /\ tamper.kind = "none"
    /\ encPw = <<97>>
    /\ decPw = <<98>>
    /\ decRes.error = CryptoError("decrypt")

C2_WitnessTag ==
    AuthenticationCase /\ tamper.kind = "tag" /\ decRes.error = CryptoError("decrypt")

C2_WitnessCipher ==
    AuthenticationCase /\ tamper.kind = "cipher" /\ decRes.error = CryptoError("decrypt")

\* decrypt got as far as the header: the PNG decoded, the identifier and
\* the version are right.
HeaderAccepted ==
    /\ decRes.status # "none"
    /\ container.kind = "blob"
    /\ ~getImageDataPNG(container, decEnv).isNull
    /\ verifyIdentifier(getImageDataPNG(container, decEnv).data)
    /\ ~decodeHeader(getImageDataPNG(container, decEnv).data).isNull

\* The header claims more header bytes than the image has.
HeaderExceedsImage ==
    LET rgb == getImageDataPNG(container, decEnv).data
        header == decodeHeader(rgb)
    IN  /\ ~IsNaN(header.headerHeight)
        /\ ~IsNaN(header.w)
        /\ header.headerHeight * 3 * header.w > Len(rgb)

\* decrypt returned output null with an error, the PNG encoder not called.
FailedBeforeEncoding ==
    /\ decRes.status = "returned"
    /\ decRes.output = Null
    /\ decRes.error # Null
    /\ decRes.encoded = Null

\* C8: when the header passes the identifier and version checks but
\* headerHeight * 3 * width exceeds the RGB bytes of the image, decrypt
\* returns output null with an error, and the PNG encoder is never called.
\* (The implication "oversized => failed", its conclusion written first.)
C8_OversizedHeaderFails ==
    FailedBeforeEncoding \/ ~(HeaderAccepted /\ HeaderExceedsImage)

\* An oversized header reached the decryption step and failed there.
C8_Witness ==
    /\ HeaderAccepted
    /\ HeaderExceedsImage
    /\ AllOk(decEnv)
    /\ decRes.error = CryptoError("decrypt")

\* C10: whenever decrypt reaches the PNG encoder, the pixel data it hands
\* over has exactly header.w * header.h pixels.
C10_DimensionsMatchData ==
    (decRes.status = "returned" /\ decRes.encoded # Null) =>
        Len(decRes.encoded.data) = 4 * decRes.encoded.width * decRes.encoded.height

====
